---- MODULE Spec2Model ----
(***************************************************************************)
(* A model of the `exception` crate (src/src/lib.rs) and of the            *)
(* propagation chain of its test (src/tests/tests.rs).                     *)
(*                                                                         *)
(* Values are records [ty, v, of]: `ty` is the Rust type, `v` the content  *)
(* (a string is one of MaxStr contents) and `of` the origin of an          *)
(* eyre::Report (the error type it was built from, or its message).        *)
(* An Exception<E> is a record [variant, E, payload]; the static type      *)
(* parameter E is kept as a field.  A Result is [ok, val]; an Option is a  *)
(* sequence of length 0 or 1.  A panic is the value Panic(msg).            *)
(***************************************************************************)
EXTENDS Integers, Sequences, FiniteSets, TLC

MaxStr == 2
MaxOk == 2

VARIABLES exc, res, op, inp, arg, out, fcalls, panicked, outs, pc, ret, executed, printed

vars == <<exc, res, op, inp, arg, out, fcalls, panicked, outs, pc, ret, executed, printed>>
libvars == <<exc, res, op, inp, arg, out, fcalls, panicked>>
chainvars == <<outs, pc, ret, executed, printed>>

-----------------------------------------------------------------------------
(* Values *)

Ok(x) == [ok |-> TRUE, val |-> x]
Err(x) == [ok |-> FALSE, val |-> x]
Some(x) == <<x>>
None == <<>>

NoVal == [ty |-> "-", v |-> 0, of |-> "-"]
Panic(msg) == [ty |-> "panic", v |-> 0, of |-> msg]
IsPanic(x) == "ty" \in DOMAIN x /\ x.ty = "panic"

String(n) == [ty |-> "String", v |-> n, of |-> "-"]
\* struct MyError(String)
MyError(s) == [ty |-> "MyError", v |-> s.v, of |-> "-"]
\* eyre::eyre!(msg)
eyre(msg) == [ty |-> "Report", v |-> 0, of |-> msg]
\* a report captured elsewhere (an input)
Report(n) == [ty |-> "Report", v |-> n, of |-> "eyre"]
\* the success value of a call
Val(n) == [ty |-> "T", v |-> n, of |-> "-"]

Strings == {String(n) : n \in 1..MaxStr}
MyErrors == {MyError(s) : s \in Strings}
\* impl<E: std::error::Error> From<E> for eyre::Report
ReportFrom(e) == [ty |-> "Report", v |-> e.v, of |-> e.ty]
Reports == {Report(n) : n \in 1..MaxStr} \cup {ReportFrom(e) : e \in MyErrors}
Vals == {Val(n) : n \in 1..MaxOk}

\* an Unrecoverable with a variant
UnrecoverableInhabited == {[ty |-> "Unrecoverable", v |-> 0, of |-> "-"]}

\* pub enum Unrecoverable {}
UnrecoverableValues == {}

ErrorTypes == {"String", "MyError", "Unrecoverable"}

Values(ty) ==
    CASE ty = "String" -> Strings
      [] ty = "MyError" -> MyErrors
      [] ty = "Report" -> Reports
      [] ty = "Unrecoverable" -> UnrecoverableValues
      [] OTHER -> {}

\* auto trait RecoverableError, with its two negative impls
RecoverableError(ty) == ty \notin {"Exception", "Unrecoverable"}

\* The Into<target> conversions in scope: the reflexive one, MyError: From<String>
\* and eyre::Report: From<E: Error>.
Convertible(ty, target) ==
    \/ ty = target
    \/ ty = "String" /\ target = "MyError"
    \/ ty = "MyError" /\ target = "Report"

Into(e, target) ==
    CASE e.ty = target -> e
      [] e.ty = "String" /\ target = "MyError" -> MyError(e)
      [] e.ty = "MyError" /\ target = "Report" -> ReportFrom(e)

-----------------------------------------------------------------------------
(* enum Exception<E> *)

Unrecoverable(E, r) == [variant |-> "Unrecoverable", E |-> E, payload |-> r]
Recoverable(E, e) == [variant |-> "Recoverable", E |-> E, payload |-> e]
NoExc == [variant |-> "-", E |-> "-", payload |-> NoVal]
PanicExc(E, msg) == [variant |-> "panic", E |-> E, payload |-> Panic(msg)]

\* impl Exception<Unrecoverable> { fn into_unrecoverable(self) -> eyre::Report }
into_unrecoverable(self) ==
    CASE self.variant = "Unrecoverable" -> self.payload
      [] self.variant = "Recoverable" -> Panic("unreachable")

\* fn new_recoverable(e: impl Into<eyre::Report>) -> Self
new_recoverable(E, e) == Unrecoverable(E, Into(e, "Report"))

\* fn new_unrecoverable(e: E) -> Self
new_unrecoverable(E, e) == Recoverable(E, e)

is_recoverable(self) == self.variant = "Recoverable"

try_as_recoverable(self) ==
    CASE self.variant = "Recoverable" -> Ok(self.payload)
      [] OTHER -> Err(eyre("Not a specific error"))

try_as_recoverable_mut(self) ==
    CASE self.variant = "Recoverable" -> Ok(self.payload)
      [] OTHER -> Err(eyre("Not a specific error"))

\* try_into_recoverable that answers a mismatch as try_as_recoverable does
try_into_recoverable_lossy(self) ==
    CASE self.variant = "Recoverable" -> Ok(self.payload)
      [] OTHER -> Err(Unrecoverable(self.E, eyre("Not a specific error")))

try_into_recoverable(self) ==
    CASE self.variant = "Recoverable" -> Ok(self.payload)
      [] OTHER -> Err(self)

try_as_unrecoverable(self) ==
    CASE self.variant = "Unrecoverable" -> Ok(self.payload)
      [] OTHER -> Err(eyre("Not a generic error"))

try_as_unrecoverable_mut(self) ==
    CASE self.variant = "Unrecoverable" -> Ok(self.payload)
      [] OTHER -> Err(eyre("Not a generic error"))

try_into_unrecoverable(self) ==
    CASE self.variant = "Unrecoverable" -> Ok(self.payload)
      [] OTHER -> Err(self)

\* split with the two halves exchanged
split_swapped(self) ==
    CASE self.variant = "Unrecoverable" -> <<None, Some(self.payload)>>
      [] self.variant = "Recoverable" -> <<Some(self.payload), None>>

split(self) ==
    CASE self.variant = "Unrecoverable" -> <<Some(self.payload), None>>
      [] self.variant = "Recoverable" -> <<None, Some(self.payload)>>

-----------------------------------------------------------------------------
(* The closures handed to map and map_exception: [name, dom, cod].  *)

Fns == { [name |-> "MyError::from", dom |-> "String", cod |-> "MyError"],
         [name |-> "inner", dom |-> "MyError", cod |-> "String"],
         [name |-> "first", dom |-> "String", cod |-> "String"],
         [name |-> "absurd", dom |-> "Unrecoverable", cod |-> "String"] }

Apply(f, e) ==
    CASE f.name = "MyError::from" -> MyError(e)
      [] f.name = "inner" -> String(e.v)
      [] f.name = "first" -> String(1)
      [] f.name = "absurd" -> Panic("absurd")

\* Into::into as the closure of map_into::<T>() on an Exception<E>
IntoFn(E, T) == [name |-> "Into::into", dom |-> E, cod |-> T]

Call(f, e) == IF f.name = "Into::into" THEN Into(e, f.cod) ELSE Apply(f, e)

\* map whose pass-through arm goes through the constructor named for it
map_run_ctor(self, f) ==
    CASE self.variant = "Unrecoverable" ->
           [out |-> new_unrecoverable(f.cod, self.payload), calls |-> <<>>]
      [] self.variant = "Recoverable" ->
           [out |-> Recoverable(f.cod, Call(f, self.payload)),
            calls |-> <<self.payload>>]

\* map that leaves the recoverable payload as it is
map_run_skip(self, f) ==
    CASE self.variant = "Unrecoverable" ->
           [out |-> Unrecoverable(f.cod, self.payload), calls |-> <<>>]
      [] self.variant = "Recoverable" ->
           [out |-> Recoverable(f.cod, self.payload), calls |-> <<>>]

\* fn map<F, T>(self, f: F) -> Exception<T>: the value returned and the
\* arguments f was called with
map_run(self, f) ==
    CASE self.variant = "Unrecoverable" ->
           [out |-> Unrecoverable(f.cod, self.payload), calls |-> <<>>]
      [] self.variant = "Recoverable" ->
           [out |-> Recoverable(f.cod, Call(f, self.payload)),
            calls |-> <<self.payload>>]

map(self, f) == map_run(self, f).out

\* fn map_into<T>(self) -> Exception<T> where E: Into<T>
map_into(self, T) == map(self, IntoFn(self.E, T))

-----------------------------------------------------------------------------
(* The From impls: what `?` and .into() apply to an error. *)

\* From<T> without the .into()
From_T_raw(E, error) == Recoverable(E, error)

\* impl<T, E> From<T> for Exception<E> where T: RecoverableError + Into<E>
From_T(E, error) == Recoverable(E, Into(error, E))

\* impl<E> From<Exception> for Exception<E> where E: RecoverableError
From_Exception(E, error) ==
    CASE error.variant = "Unrecoverable" -> Unrecoverable(E, error.payload)
      [] error.variant = "Recoverable" -> PanicExc(E, "unreachable")

\* impl<E> From<eyre::Report> for Exception<E>
From_Report(E, error) == Unrecoverable(E, error)

IsException(x) == "variant" \in DOMAIN x

\* The impl that From::from(error) resolves to for the target Exception<E>:
\* error is a raw value or an Exception (the reflexive From<T> for T when
\* it is an Exception<E> already).
From(E, error) ==
    IF IsException(error)
    THEN IF error.E = E THEN error ELSE From_Exception(E, error)
    ELSE IF error.ty = "Report" THEN From_Report(E, error) ELSE From_T(E, error)

-----------------------------------------------------------------------------
(* type ExceptionResult<T, E> = Result<T, Exception<E>> and its extensions *)

NoRes == Err(NoExc)

\* fn map_exception<F, E2>(self, f: F) -> ExceptionResult<T, E2>
map_exception(self, f) == IF self.ok THEN self ELSE Err(map(self.val, f))

\* the arguments f was called with by map_exception
map_exception_calls(self, f) == IF self.ok THEN <<>> ELSE map_run(self.val, f).calls

\* fn map_exception_into<E2>(self) -> ExceptionResult<T, E2> where E: Into<E2>
map_exception_into(self, E2) ==
    IF self.ok THEN self ELSE map_exception(self, IntoFn(self.val.E, E2))

\* split with the two error arms exchanged
ext_split_swapped(self) ==
    CASE self.ok -> Ok(Ok(self.val))
      [] ~self.ok /\ self.val.variant = "Unrecoverable" -> Ok(Err(self.val.payload))
      [] ~self.ok /\ self.val.variant = "Recoverable" -> Err(self.val.payload)

\* ExceptionResultExt::split(self) -> eyre::Result<Result<T, E>>
ext_split(self) ==
    CASE self.ok -> Ok(Ok(self.val))
      [] ~self.ok /\ self.val.variant = "Unrecoverable" -> Err(self.val.payload)
      [] ~self.ok /\ self.val.variant = "Recoverable" -> Ok(Err(self.val.payload))

\* UnrecoverableExceptionResultExt::into_unrecoverable(self) -> Result<T, eyre::Report>
ext_into_unrecoverable(self) ==
    IF self.ok
    THEN Ok(self.val)
    ELSE LET e == into_unrecoverable(self.val)
         IN  IF IsPanic(e) THEN e ELSE Err(e)

\* ResultExt::recoverable(self) -> ExceptionResult<T, E>
recoverable(self) == IF self.ok THEN self ELSE Err(Recoverable(self.val.ty, self.val))

\* ResultExt::unrecoverable(self) -> ExceptionResult<T> where E: Into<eyre::Report>
unrecoverable(self) ==
    IF self.ok THEN self ELSE Err(Unrecoverable("Unrecoverable", Into(self.val, "Report")))

-----------------------------------------------------------------------------
(* trait Finalize *)

\* impl<E: RecoverableError> Finalize for E
finalize_E(r) == r

\* finalize for Unrecoverable that hands the Result back
finalize_Unrecoverable_wrapped(r) == r

\* impl Finalize for Unrecoverable
finalize_Unrecoverable(r) ==
    IF r.ok THEN r.val ELSE Panic("NoCustomBackendError can't be created")

finalize(E, r) == IF E = "Unrecoverable" THEN finalize_Unrecoverable(r) ELSE finalize_E(r)

\* The values of type Result<T, E>
Results(E) == {Ok(t) : t \in Vals} \cup {Err(e) : e \in Values(E)}

-----------------------------------------------------------------------------
(* The library in use: exc is the Exception value at hand, res the         *)
(* ExceptionResult at hand; op, inp, arg, out record the last call, fcalls *)
(* the arguments its closure was called with, panicked whether it hit a    *)
(* panic.                                                                  *)

NoArg == [name |-> "-", dom |-> "-", cod |-> "-"]
TypeArg(E) == [name |-> "-", dom |-> "-", cod |-> E]

ChainIdle ==
    /\ outs = <<>>
    /\ pc = 0
    /\ ret = NoRes
    /\ executed = 0
    /\ printed = None

LibIdle ==
    /\ exc = NoExc
    /\ res = NoRes
    /\ op = "-"
    /\ inp = NoVal
    /\ arg = NoArg
    /\ out = NoVal
    /\ fcalls = <<>>
    /\ panicked = FALSE

Init == LibIdle /\ ChainIdle

Called(name, i, a, o, calls, p, e2, r2) ==
    /\ ~panicked
    /\ op' = name
    /\ inp' = i
    /\ arg' = a
    /\ out' = o
    /\ fcalls' = calls
    /\ panicked' = p
    /\ exc' = e2
    /\ res' = r2
    /\ UNCHANGED chainvars

NewRecoverable ==
    \E E \in ErrorTypes, e \in MyErrors \cup Reports :
        LET x == new_recoverable(E, e)
        IN  Called("new_recoverable", e, TypeArg(E), x, <<>>, FALSE, x, res)

NewUnrecoverable ==
    \E E \in ErrorTypes :
        \E e \in Values(E) :
            LET x == new_unrecoverable(E, e)
            IN  Called("new_unrecoverable", e, TypeArg(E), x, <<>>, FALSE, x, res)

FromT ==
    \E E \in ErrorTypes, e \in Strings \cup MyErrors \cup UnrecoverableValues :
        /\ RecoverableError(e.ty)
        /\ Convertible(e.ty, E)
        /\ LET x == From_T(E, e)
           IN  Called("From<T>", e, TypeArg(E), x, <<>>, FALSE, x, res)

FromReport ==
    \E E \in ErrorTypes, r \in Reports :
        LET x == From_Report(E, r)
        IN  Called("From<Report>", r, TypeArg(E), x, <<>>, FALSE, x, res)

FromException ==
    \E E \in ErrorTypes :
        /\ exc # NoExc
        /\ exc.E = "Unrecoverable"
        /\ RecoverableError(E)
        /\ LET x == From_Exception(E, exc)
           IN  Called("From<Exception>", exc, TypeArg(E), x, <<>>,
                      x.variant = "panic", x, res)

IsRecoverable ==
    /\ exc # NoExc
    /\ Called("is_recoverable", exc, NoArg, [bool |-> is_recoverable(exc)], <<>>,
              FALSE, exc, res)

TryAsRecoverable ==
    /\ exc # NoExc
    /\ Called("try_as_recoverable", exc, NoArg, try_as_recoverable(exc), <<>>,
              FALSE, exc, res)

\* the caller may write a value of type E through the &mut E it is given
TryAsRecoverableMut ==
    /\ exc # NoExc
    /\ LET r == try_as_recoverable_mut(exc)
       IN  IF r.ok
           THEN \E w \in Values(exc.E) :
                   Called("try_as_recoverable_mut", exc, NoArg, r, <<>>, FALSE,
                          [exc EXCEPT !.payload = w], res)
           ELSE Called("try_as_recoverable_mut", exc, NoArg, r, <<>>, FALSE, exc, res)

TryAsUnrecoverable ==
    /\ exc # NoExc
    /\ Called("try_as_unrecoverable", exc, NoArg, try_as_unrecoverable(exc), <<>>,
              FALSE, exc, res)

TryAsUnrecoverableMut ==
    /\ exc # NoExc
    /\ LET r == try_as_unrecoverable_mut(exc)
       IN  IF r.ok
           THEN \E w \in Reports :
                   Called("try_as_unrecoverable_mut", exc, NoArg, r, <<>>, FALSE,
                          [exc EXCEPT !.payload = w], res)
           ELSE Called("try_as_unrecoverable_mut", exc, NoArg, r, <<>>, FALSE, exc, res)

TryIntoRecoverable ==
    /\ exc # NoExc
    /\ Called("try_into_recoverable", exc, NoArg, try_into_recoverable(exc), <<>>,
              FALSE, NoExc, res)

TryIntoUnrecoverable ==
    /\ exc # NoExc
    /\ Called("try_into_unrecoverable", exc, NoArg, try_into_unrecoverable(exc), <<>>,
              FALSE, NoExc, res)

Split ==
    /\ exc # NoExc
    /\ Called("split", exc, NoArg, split(exc), <<>>, FALSE, NoExc, res)

Map ==
    \E f \in Fns :
        /\ exc # NoExc
        /\ f.dom = exc.E
        /\ LET r == map_run(exc, f)
           IN  Called("map", exc, f, map(exc, f), r.calls, FALSE, map(exc, f), res)

MapInto ==
    \E T \in ErrorTypes :
        /\ exc # NoExc
        /\ Convertible(exc.E, T)
        /\ LET x == map_into(exc, T)
           IN  Called("map_into", exc, TypeArg(T), x,
                      map_run(exc, IntoFn(exc.E, T)).calls, FALSE, x, res)

IntoUnrecoverable ==
    /\ exc # NoExc
    /\ exc.E = "Unrecoverable"
    /\ LET r == into_unrecoverable(exc)
       IN  Called("into_unrecoverable", exc, NoArg, r, <<>>, IsPanic(r), NoExc, res)

\* a function returns the Exception at hand as its error
ReturnErr ==
    /\ exc # NoExc
    /\ Called("return Err", exc, NoArg, Err(exc), <<>>, FALSE, NoExc, Err(exc))

\* a function returns a success
ReturnOk ==
    \E t \in Vals :
        Called("return Ok", t, NoArg, Ok(t), <<>>, FALSE, exc, Ok(t))

ResultRecoverable ==
    \E E \in ErrorTypes :
        \E r \in Results(E) :
            Called("recoverable", r, TypeArg(E), recoverable(r), <<>>, FALSE,
                   exc, recoverable(r))

ResultUnrecoverable ==
    \E E \in {"MyError", "Report"} :
        \E r \in Results(E) :
            Called("unrecoverable", r, TypeArg(E), unrecoverable(r), <<>>, FALSE,
                   exc, unrecoverable(r))

MapException ==
    \E f \in Fns :
        /\ res # NoRes
        /\ IF res.ok THEN TRUE ELSE f.dom = res.val.E
        /\ LET x == map_exception(res, f)
           IN  Called("map_exception", res, f, x, map_exception_calls(res, f),
                      FALSE, exc, x)

MapExceptionInto ==
    \E E2 \in ErrorTypes :
        /\ res # NoRes
        /\ IF res.ok THEN TRUE ELSE Convertible(res.val.E, E2)
        /\ LET x == map_exception_into(res, E2)
           IN  Called("map_exception_into", res, TypeArg(E2), x,
                      IF res.ok THEN <<>>
                      ELSE map_exception_calls(res, IntoFn(res.val.E, E2)),
                      FALSE, exc, x)

ExtSplit ==
    /\ res # NoRes
    /\ Called("ext_split", res, NoArg, ext_split(res), <<>>, FALSE, exc, NoRes)

ExtIntoUnrecoverable ==
    /\ res # NoRes
    /\ IF res.ok THEN TRUE ELSE res.val.E = "Unrecoverable"
    /\ LET r == ext_into_unrecoverable(res)
       IN  Called("ext_into_unrecoverable", res, NoArg, r, <<>>,
                  IsPanic(r), exc, NoRes)

\* E::finalize(r) on a Result<T, E>
Finalize ==
    \E E \in ErrorTypes :
        \E r \in Results(E) :
            LET x == finalize(E, r)
            IN  Called("finalize", r, TypeArg(E), x, <<>>,
                       E = "Unrecoverable" /\ IsPanic(x), exc, res)

\* E::finalize(res.split()?) : the typed half of the ExceptionResult at hand
SplitFinalize ==
    \E E \in ErrorTypes :
        /\ res # NoRes
        /\ IF res.ok THEN TRUE ELSE res.val.E = E
        /\ ext_split(res).ok
        /\ LET r == ext_split(res).val
               x == finalize(E, r)
           IN  Called("split_finalize", r, TypeArg(E), x, <<>>,
                      E = "Unrecoverable" /\ IsPanic(x), exc, NoRes)

LibNext ==
    \/ NewRecoverable
    \/ NewUnrecoverable
    \/ FromT
    \/ FromReport
    \/ FromException
    \/ IsRecoverable
    \/ TryAsRecoverable
    \/ TryAsRecoverableMut
    \/ TryAsUnrecoverable
    \/ TryAsUnrecoverableMut
    \/ TryIntoRecoverable
    \/ TryIntoUnrecoverable
    \/ Split
    \/ Map
    \/ MapInto
    \/ IntoUnrecoverable
    \/ ReturnErr
    \/ ReturnOk
    \/ ResultRecoverable
    \/ ResultUnrecoverable
    \/ MapException
    \/ MapExceptionInto
    \/ ExtSplit
    \/ ExtIntoUnrecoverable
    \/ Finalize
    \/ SplitFinalize

Next == LibNext

Spec == Init /\ [][Next]_vars

-----------------------------------------------------------------------------
(* fn test() -> ExceptionResult<(), MyError> of tests.rs: eight statements, *)
(* each a call followed by `?`.  outs[i] is the value the call of          *)
(* statement i returns, should it be made (an input: the called functions   *)
(* stand for any fallible function of their signature).  pc is the          *)
(* statement about to run (Len(Callee) + 1 once test has returned),         *)
(* executed the number of calls made, ret the value test returns, printed   *)
(* what println! was given.                                                 *)

Unit == [ty |-> "T", v |-> 0, of |-> "-"]

ChainReports == {Report(n) : n \in 1..MaxStr}

\* The values of type ExceptionResult<(), E>
ExceptionResults(E) ==
    {Ok(Unit)} \cup {Err(Recoverable(E, e)) : e \in Values(E)}
               \cup {Err(Unrecoverable(E, r)) : r \in ChainReports}

\* The return types of the functions test() calls
Returns == << {Ok(Unit)} \cup {Err(e) : e \in MyErrors},         \* 1 my_error()
              {Ok(Unit)} \cup {Err(r) : r \in ChainReports},     \* 2 generic_error()
              {Ok(Unit)} \cup {Err(s) : s \in Strings},          \* 3 string_error()
              ExceptionResults("Unrecoverable"),                 \* 4 unrecoverable_exception()
              ExceptionResults("MyError"),                       \* 5 myerror_exception()
              ExceptionResults("String") >>                      \* 6 string_exception()

\* The function each statement of test() calls
Callee == <<1, 2, 3, 4, 5, 6, 6, 6>>

\* expr? in a function returning Result<_, Exception<E>>: the value of the
\* expression, or the early return Err(From::from(e))
Returned(r) == [returns |-> TRUE, val |-> r]
Continue(v) == [returns |-> FALSE, val |-> v]

\* `?` that drops the error and goes on
TryKeepGoing(E, r) == Continue(IF r.ok THEN r.val ELSE Ok(Unit))

Try(E, r) == IF r.ok THEN Continue(r.val) ELSE Returned(Err(From(E, r.val)))

\* Statement i of test() on the value r its call returned
Statement(i, r) ==
    CASE i \in 1..5 -> Try("MyError", r)
      [] i = 6 ->
           LET a == Try("MyError", ext_split(r))
           IN  IF a.returns THEN a ELSE Try("MyError", a.val)
      [] i = 7 -> Try("MyError", map_exception_into(r, "MyError"))
      [] i = 8 -> Try("MyError", ext_split(r))

ChainInit ==
    /\ LibIdle
    /\ outs \in Returns[Callee[1]] \X Returns[Callee[2]] \X Returns[Callee[3]]
                \X Returns[Callee[4]] \X Returns[Callee[5]] \X Returns[Callee[6]]
                \X Returns[Callee[7]] \X Returns[Callee[8]]
    /\ pc = 1
    /\ ret = NoRes
    /\ executed = 0
    /\ printed = None

\* statements 1 to 7: call()?;
CallAndTry ==
    /\ pc \in 1..7
    /\ LET s == Statement(pc, outs[pc])
       IN  /\ executed' = executed + 1
           /\ IF s.returns
              THEN ret' = s.val /\ pc' = Len(Callee) + 1
              ELSE ret' = ret /\ pc' = pc + 1
    /\ UNCHANGED <<outs, printed>>
    /\ UNCHANGED libvars

\* statement 8: if let Err(e) = string_exception().split()? { println!(..) }
\* and the final Ok(())
CallAndMatch ==
    /\ pc = 8
    /\ LET s == Statement(pc, outs[pc])
       IN  /\ executed' = executed + 1
           /\ pc' = Len(Callee) + 1
           /\ IF s.returns
              THEN ret' = s.val /\ printed' = printed
              ELSE /\ ret' = Ok(Unit)
                   /\ printed' = IF s.val.ok THEN printed ELSE Some(s.val.val)
    /\ UNCHANGED outs
    /\ UNCHANGED libvars

ChainNext == CallAndTry \/ CallAndMatch

ChainSpec == ChainInit /\ [][ChainNext]_vars

-----------------------------------------------------------------------------
(* Properties *)

\* C1: each explicit constructor produces the variant it is named for:
\* new_recoverable returns a Recoverable value (is_recoverable is true and
\* try_into_recoverable succeeds), new_unrecoverable an Unrecoverable one
\* (is_recoverable is false and try_into_unrecoverable succeeds), for any E.
C1_ConstructorsMatchNames ==
    /\ op = "new_recoverable" =>
           /\ is_recoverable(out)
           /\ try_into_recoverable(out).ok
    /\ op = "new_unrecoverable" =>
           /\ ~is_recoverable(out)
           /\ try_into_unrecoverable(out).ok

\* C2: converting a raw error e of a marked type T into Exception<E> yields
\* the Recoverable variant, and try_into_recoverable on it returns Ok with
\* the converted payload: e itself when T = E, MyError(e) for a String e.
C2_FromRoundTrip ==
    op = "From<T>" =>
        /\ exc = out
        /\ out.variant = "Recoverable"
        /\ out.E = arg.cod
        /\ try_into_recoverable(out) =
               Ok(IF inp.ty = arg.cod
                  THEN inp
                  ELSE [ty |-> "MyError", v |-> inp.v, of |-> "-"])

C2_Witness ==
    /\ op = "From<T>"
    /\ inp = String(2)
    /\ arg.cod = "MyError"
    /\ try_into_recoverable(exc) = Ok(MyError(String(2)))

\* C3: converting a report r into Exception<E>, for every E, yields
\* Unrecoverable(r) with the same report, and split() on an Unrecoverable(r)
\* returns (Some(r), None).
C3_FromReportSplit ==
    /\ op = "From<Report>" =>
           /\ exc = out
           /\ out = [variant |-> "Unrecoverable", E |-> arg.cod, payload |-> inp]
           /\ split(out) = <<Some(inp), None>>
    /\ (op = "split" /\ inp.variant = "Unrecoverable") =>
           out = <<Some(inp.payload), None>>

C3_Witness ==
    /\ op = "From<Report>"
    /\ arg.cod = "MyError"
    /\ inp = Report(1)
    /\ split(exc) = <<Some(Report(1)), None>>

\* C4: ExceptionResultExt::split maps Ok(t) to Ok(Ok(t)), Err(Recoverable(e))
\* to Ok(Err(e)) and Err(Unrecoverable(r)) to Err(r), the payload unchanged,
\* and these are all the inputs there are.
C4_ExtSplitThreeWay ==
    op = "ext_split" =>
        CASE inp.ok -> out = Ok(Ok(inp.val))
          [] ~inp.ok /\ inp.val.variant = "Recoverable" ->
               out = Ok(Err(inp.val.payload))
          [] ~inp.ok /\ inp.val.variant = "Unrecoverable" ->
               out = Err(inp.val.payload)
          [] OTHER -> FALSE

C4_Witness ==
    /\ op = "ext_split"
    /\ inp = Err(Recoverable("String", String(2)))
    /\ out = Ok(Err(String(2)))

\* C5: map(f) on Recoverable(e) yields Recoverable(f(e)); on Unrecoverable(r)
\* it yields Unrecoverable(r), the report unchanged, f not applied and the
\* result the same for every f.
C5_MapBothVariants ==
    op = "map" =>
        IF inp.variant = "Recoverable"
        THEN /\ out = [variant |-> "Recoverable", E |-> arg.cod,
                       payload |-> Apply(arg, inp.payload)]
             /\ fcalls = <<inp.payload>>
        ELSE /\ out = [variant |-> "Unrecoverable", E |-> arg.cod,
                       payload |-> inp.payload]
             /\ fcalls = <<>>
             /\ \A g \in Fns : g.dom = inp.E => map(inp, g).payload = inp.payload

C5_Witness ==
    /\ op = "map"
    /\ arg.name = "MyError::from"
    /\ inp = Recoverable("String", String(2))
    /\ out = Recoverable("MyError", MyError(String(2)))

\* C6: for a genuine error type E finalize returns its argument unchanged,
\* Ok or Err; for the uninhabited type the argument is always Ok(t), the
\* result is the bare t, and the panic is never reached.
C6_Finalize ==
    op \in {"finalize", "split_finalize"} =>
        IF arg.cod = "Unrecoverable"
        THEN /\ inp.ok
             /\ out = inp.val
             /\ ~panicked
        ELSE /\ out = inp
             /\ ~panicked

C6_Witness ==
    /\ op = "split_finalize"
    /\ arg.cod = "Unrecoverable"
    /\ inp = Ok(Val(2))
    /\ out = Val(2)

\* C7: try_into_recoverable on Unrecoverable(r) returns Err of the original
\* value and try_into_unrecoverable on Recoverable(e) returns Err of the
\* original value; on the matching variant each returns Ok of the payload.
C7_TryIntoPreserves ==
    /\ op = "try_into_recoverable" =>
           out = IF inp.variant = "Recoverable" THEN Ok(inp.payload) ELSE Err(inp)
    /\ op = "try_into_unrecoverable" =>
           out = IF inp.variant = "Unrecoverable" THEN Ok(inp.payload) ELSE Err(inp)

C7_Witness ==
    /\ op = "try_into_recoverable"
    /\ inp = Unrecoverable("MyError", Report(2))
    /\ out = Err(Unrecoverable("MyError", Report(2)))

Done == pc = Len(Callee) + 1
AllSucceed == \A i \in 1..Len(Callee) : outs[i].ok
FirstFailing ==
    CHOOSE k \in 1..Len(Callee) : ~outs[k].ok /\ \A j \in 1..(k - 1) : outs[j].ok

\* What a failed call, alone, comes to in an Exception<MyError>: a typed
\* error is Recoverable with the payload converted to MyError, a report is
\* Unrecoverable with the report itself.
Classified(r) ==
    LET e == r.val
        typed == IF IsException(e) THEN e.variant = "Recoverable" ELSE e.ty # "Report"
        payload == IF IsException(e) THEN e.payload ELSE e
    IN  IF typed
        THEN [variant |-> "Recoverable", E |-> "MyError",
              payload |-> [ty |-> "MyError", v |-> payload.v, of |-> "-"]]
        ELSE [variant |-> "Unrecoverable", E |-> "MyError", payload |-> payload]

\* The last statement of test() matches a Recoverable failure of its call
\* itself and does not propagate it.
MatchedAtLast ==
    /\ ~AllSucceed
    /\ FirstFailing = Len(Callee)
    /\ outs[Len(Callee)].val.variant = "Recoverable"

\* C8 as stated: test() returns Ok iff every call succeeds, and otherwise
\* exactly the classification of the first failing call alone, whatever
\* succeeded before it; no call after the first failure is made.
C8_ChainAsStated ==
    Done =>
        /\ ret.ok <=> AllSucceed
        /\ AllSucceed => executed = Len(Callee)
        /\ ~AllSucceed =>
               /\ ret = Err(Classified(outs[FirstFailing]))
               /\ executed = FirstFailing

\* C8 amended: as stated, except that a Recoverable failure of the last call,
\* which test() matches with `if let Err(e) = ..split()?` and prints, makes
\* test() return Ok(()) as if every call had succeeded.
C8_ChainFirstFailure ==
    Done =>
        IF AllSucceed \/ MatchedAtLast
        THEN /\ ret = Ok(Unit)
             /\ executed = Len(Callee)
             /\ printed = IF AllSucceed THEN None
                          ELSE Some(outs[Len(Callee)].val.payload)
        ELSE /\ ret = Err(Classified(outs[FirstFailing]))
             /\ executed = FirstFailing
             /\ printed = None

C8_Witness ==
    /\ Done
    /\ FirstFailing = 3
    /\ outs[3] = Err(String(2))
    /\ ~outs[6].ok
    /\ executed = 3
    /\ ret = Err(Recoverable("MyError", MyError(String(2))))

Views == {"is_recoverable", "try_as_recoverable", "try_as_recoverable_mut",
          "try_as_unrecoverable", "try_as_unrecoverable_mut"}

\* C9: an Exception is in exactly one of the two variants, and map, map_into,
\* map_exception, map_exception_into and the views leave the value at hand
\* in the variant it was in.
C9_VariantImmutable ==
    [][ /\ (exc' # NoExc /\ ~panicked') =>
               exc'.variant \in {"Recoverable", "Unrecoverable"}
        /\ op' \in Views \cup {"map", "map_into"} =>
               /\ inp' = exc
               /\ exc'.variant = exc.variant
        /\ op' \in {"map_exception", "map_exception_into"} =>
               /\ inp' = res
               /\ res'.ok = res.ok
               /\ IF res.ok THEN res' = res
                  ELSE res'.val.variant = res.val.variant ]_vars

C9_Witness ==
    /\ op = "map_into"
    /\ inp = Recoverable("String", String(1))
    /\ exc.E = "MyError"
    /\ exc.variant = "Recoverable"

\* C10: an Exception whose recoverable type is the uninhabited type is always
\* Unrecoverable, so no unreachable!() arm is reached: into_unrecoverable
\* returns the report, the Result-level into_unrecoverable returns
\* Err(report) or passes Ok(v) through, and From<Exception> returns
\* Unrecoverable(report).
C10_DefectUnreachable ==
    /\ (exc # NoExc /\ exc.E = "Unrecoverable") => exc.variant = "Unrecoverable"
    /\ (res # NoRes /\ ~res.ok) =>
           (res.val.E = "Unrecoverable" => res.val.variant = "Unrecoverable")
    /\ ~panicked
    /\ op = "into_unrecoverable" => out = inp.payload
    /\ op = "ext_into_unrecoverable" =>
           out = IF inp.ok THEN Ok(inp.val) ELSE Err(inp.val.payload)
    /\ op = "From<Exception>" =>
           out = [variant |-> "Unrecoverable", E |-> arg.cod, payload |-> inp.payload]

C10_Witness ==
    /\ op = "From<Exception>"
    /\ inp = Unrecoverable("Unrecoverable", Report(2))
    /\ arg.cod = "MyError"
    /\ out = Unrecoverable("MyError", Report(2))

====
